---- MODULE Spec2Model ----
(***************************************************************************)
(* Model of the agent orchestration core of templates/service-python:      *)
(* Agent.chat (the tool execution loop), Agent._execute_tool, the tool     *)
(* registry of src/tools and the chat route of src/api/chat.py.            *)
(*                                                                         *)
(* Python values are represented as follows.                               *)
(*   Optional[T]   a set with at most one element: {} is None, {x} is x    *)
(*   Any           a tagged record: [t |-> "float", f |-> 4] is 4.0        *)
(*   dict[str,str] a set of <<key, value>> pairs                           *)
(*   list          a sequence                                              *)
(*   call outcome  [value |-> Optional, exc |-> Optional]: a call either   *)
(*                 returns (exc = {}) or raises (exc = {e})                *)
(***************************************************************************)
EXTENDS Integers, Sequences, FiniteSets, TLC

VARIABLES
    caller,            \* "direct": Agent.chat called by code; "route": POST /chat
    agent_id,          \* the requested agent identifier
    max_iterations,    \* Agent.chat parameter max_iterations
    messages,          \* Agent.chat parameter messages (the caller's list)
    current_messages,  \* Agent.chat local current_messages
    tool_results,      \* Agent.chat local tool_results
    iterations,        \* Agent.chat local iterations
    response,          \* Agent.chat local response (Optional[Message])
    idx,               \* position of the for loop over response.tool_calls
    pc,                \* control point of the invocation
    ret,               \* Optional[<<Message, list[ToolResult]>>] returned by Agent.chat
    exc,               \* Optional[exception] raised out of Agent.chat
    http,              \* Optional[HTTP response] of the route
    provider_calls,    \* number of provider.complete calls issued (observer)
    batches,           \* number of dispatch batches started (observer)
    completions,       \* outcomes of the provider.complete calls so far (observer)
    executed,          \* log of Tool.execute invocations (observer)
    TOOLS,             \* src/tools TOOLS: name -> tool instance (named by its class)
    config,            \* Optional[AgentConfig]: the configuration of the agent
    agent,             \* Optional[Agent]: the constructed Agent object
    requests,          \* requests the provider adapter sent to its backend (observer)
    backend_responses, \* what the backend answered to each request (observer)
    msg_args,          \* Optional[arguments] of a Message(...) construction
    msg_out,           \* Optional[outcome] of that construction
    parked             \* Optional[suspended invocation]: the frame of a second
                       \* Agent.chat coroutine while the first one runs

vars == <<caller, agent_id, max_iterations, messages, current_messages,
          tool_results, iterations, response, idx, pc, ret, exc, http,
          provider_calls, batches, completions, executed, TOOLS, config,
          agent, requests, backend_responses, msg_args, msg_out, parked>>

-----------------------------------------------------------------------------
(* Bounds of the exploration *)

MaxCap == 2          \* caps tried by a direct caller: 0..MaxCap
MaxBatch == 2        \* longest tool-call list of one provider response
MaxToolCalls == 3    \* tool calls the provider requests in one invocation
MaxTools == 3        \* longest config.tools list of a constructed agent

-----------------------------------------------------------------------------
(* Python helpers *)

None == {}
Some(x) == {x}
The(opt) == CHOOSE x \in opt : TRUE

PyInt(n) == [t |-> "int", i |-> n]
PyFloat(n) == [t |-> "float", f |-> n]
PyStr(s) == [t |-> "str", s |-> s]
PyDict(d) == [t |-> "dict", d |-> d]
PyList(l) == [t |-> "list", l |-> l]
PyBool(b) == [t |-> "bool", b |-> b]

\* bool(v) for the values the tools produce
PyTruthy(v) ==
    CASE v.t = "float" -> v.f /= 0
      [] v.t = "int" -> v.i /= 0
      [] v.t = "str" -> v.s /= ""
      [] v.t = "dict" -> v.d /= {}
      [] v.t = "list" -> v.l /= <<>>
      [] v.t = "bool" -> v.b

\* truthiness of an Optional value: None is falsy
Truthy(opt) == opt /= None /\ PyTruthy(The(opt))

\* str(v); floats of the model are integral, str(4.0) = "4.0"
PyStrOf(v) ==
    CASE v.t = "float" -> ToString(v.f) \o ".0"
      [] v.t = "int" -> ToString(v.i)
      [] v.t = "str" -> v.s
      [] v.t = "dict" -> "{}"
      [] v.t = "list" -> IF v.l = <<>> THEN "[]" ELSE "[1]"
      [] v.t = "bool" -> IF v.b THEN "True" ELSE "False"

\* str(None) = "None"
StrOfOpt(opt) == IF opt = None THEN "None" ELSE PyStrOf(The(opt))

HasKey(d, k) == \E p \in d : p[1] = k
Get(d, k) == (CHOOSE p \in d : p[1] = k)[2]

Exception(type, arg) == [type |-> type, arg |-> arg]

\* str(e): KeyError renders the repr of its key, the others their message
StrOfExc(e) == IF e.type = "KeyError" THEN "'" \o e.arg \o "'" ELSE e.arg

\* classes caught by "except Exception"
IsException(e) == e.type \notin {"KeyboardInterrupt", "SystemExit", "CancelledError"}

Return(opt) == [value |-> opt, exc |-> None]
Raise(e) == [value |-> None, exc |-> Some(e)]

-----------------------------------------------------------------------------
(* src/models *)

USER == "user"
SYSTEM == "system"
ASSISTANT == "assistant"
TOOL == "tool"

Message(role, content, tool_call_id, tool_calls) ==
    [role |-> role, content |-> content,
     tool_call_id |-> tool_call_id, tool_calls |-> tool_calls]

ToolCall(id, name, arguments) == [id |-> id, name |-> name, arguments |-> arguments]

ToolResult(tool_call_id, result, error) ==
    [tool_call_id |-> tool_call_id, result |-> result, error |-> error]

-----------------------------------------------------------------------------
(* src/tools *)

\* eval(expression, {"__builtins__": {}}, safe_dict) on the expressions of the model
Eval(expression) ==
    CASE expression = "2+2" -> Return(Some(4))
      [] expression = "0*5" -> Return(Some(0))
      [] expression = "1/0" -> Raise(Exception("ZeroDivisionError", "division by zero"))
      [] OTHER -> Raise(Exception("SyntaxError", "invalid syntax"))

\* variant: the value of the expression is returned without float(...)
CalculatorExecuteNoFloat(args) ==
    IF ~HasKey(args, "expression")
    THEN Raise(Exception("KeyError", "expression"))
    ELSE LET result == Eval(Get(args, "expression")) IN
         IF result.exc /= None
         THEN Raise(Exception("ValueError",
                              "Invalid expression: " \o StrOfExc(The(result.exc))))
         ELSE Return(Some(PyInt(The(result.value))))

\* CalculatorTool.execute
CalculatorExecute(args) ==
    IF ~HasKey(args, "expression")
    THEN Raise(Exception("KeyError", "expression"))
    ELSE LET result == Eval(Get(args, "expression")) IN
         IF result.exc /= None
         THEN Raise(Exception("ValueError",
                              "Invalid expression: " \o StrOfExc(The(result.exc))))
         ELSE Return(Some(PyFloat(The(result.value))))

\* CurrentTimeTool.execute; now is datetime.utcnow() as [date, time]
CurrentTimeExecute(args, now) ==
    LET fmt == IF HasKey(args, "format") THEN Get(args, "format") ELSE "iso" IN
    CASE fmt = "iso" -> Return(Some(PyStr(now.date \o "T" \o now.time \o "Z")))
      [] fmt = "date" -> Return(Some(PyStr(now.date)))
      [] fmt = "time" -> Return(Some(PyStr(now.time)))
      [] fmt = "datetime" -> Return(Some(PyStr(now.date \o " " \o now.time \o " UTC")))
      [] OTHER -> Return(Some(PyStr(now.date \o "T" \o now.time \o "Z")))

\* json.loads on the documents of the model
JsonLoads(json_string) ==
    CASE json_string = "null" -> Return(None)
      [] json_string = "{}" -> Return(Some(PyDict({})))
      [] json_string = "[]" -> Return(Some(PyList(<<>>)))
      [] json_string = "false" -> Return(Some(PyBool(FALSE)))
      [] OTHER -> Raise(Exception("JSONDecodeError", "Expecting value: line 1 column 1 (char 0)"))

\* JsonParseTool.execute; a path of the model is one plain key
JsonParseExecute(args) ==
    IF ~HasKey(args, "json_string")
    THEN Raise(Exception("KeyError", "json_string"))
    ELSE LET data == JsonLoads(Get(args, "json_string")) IN
         IF data.exc /= None THEN data
         ELSE IF ~HasKey(args, "path") \/ Get(args, "path") = "" THEN Return(data.value)
         ELSE IF data.value /= None /\ The(data.value).t = "dict"
              THEN Raise(Exception("KeyError", Get(args, "path")))
              ELSE Raise(Exception("KeyError", "Cannot navigate to " \o Get(args, "path")))

\* TOOLS as built when src/tools is imported
TOOLS_at_import ==
    [name \in {"calculator", "current_time", "json_parse"} |->
        CASE name = "calculator" -> "CalculatorTool"
          [] name = "current_time" -> "CurrentTimeTool"
          [] name = "json_parse" -> "JsonParseTool"]

\* variant: an unknown name falls back to a registered tool
get_tool_default(name) ==
    IF name \in DOMAIN TOOLS THEN Some(TOOLS[name]) ELSE Some(TOOLS["calculator"])

\* get_tool: TOOLS.get(name)
get_tool(name) == IF name \in DOMAIN TOOLS THEN Some(TOOLS[name]) ELSE None

\* variant: the lookup removes the entry it returns (TOOLS.pop)
TOOLS_after_pop(name) == [n \in DOMAIN TOOLS \ {name} |-> TOOLS[n]]

\* TOOLS after get_tool(name): the lookup only reads
TOOLS_after_lookup(name) == TOOLS

\* tool.execute(args), dispatched on the instance's class
ToolExecute(tool, args, now) ==
    CASE tool = "CalculatorTool" -> CalculatorExecute(args)
      [] tool = "CurrentTimeTool" -> CurrentTimeExecute(args, now)
      [] tool = "JsonParseTool" -> JsonParseExecute(args)

\* Tool.to_definition, identified by the tool's name
to_definition(name) == [name |-> name]

RECURSIVE get_tool_definitions(_)
\* variant: every listed name gets a definition, registered or not
get_tool_definitions_all(tool_names) ==
    [k \in 1..Len(tool_names) |-> to_definition(tool_names[k])]

\* get_tool_definitions: definitions of the registered names, in list order
get_tool_definitions(tool_names) ==
    IF tool_names = <<>> THEN <<>>
    ELSE LET rest == get_tool_definitions(Tail(tool_names)) IN
         IF Head(tool_names) \in DOMAIN TOOLS
         THEN <<to_definition(Head(tool_names))>> \o rest
         ELSE rest

-----------------------------------------------------------------------------
(* src/agents *)

\* AgentConfig: the fields the agent reads (provider defaults to anthropic)
AgentConfig(id, system_prompt, provider, tools) ==
    [id |-> id, system_prompt |-> system_prompt, provider |-> provider, tools |-> tools]

\* DEFAULT_AGENTS: id -> AgentConfig
DEFAULT_AGENTS ==
    [id \in {"assistant", "coder"} |->
        IF id = "assistant"
        THEN AgentConfig("assistant", "You are a helpful AI assistant.", "anthropic",
                         <<"calculator", "current_time">>)
        ELSE AgentConfig("coder", "You are an expert software engineer.", "anthropic",
                         <<>>)]

\* Agent._create_provider: the provider class for config.provider
_create_provider(cfg) ==
    IF cfg.provider = "anthropic" THEN "AnthropicProvider" ELSE "OpenAIProvider"

\* Agent.__init__
AgentNew(cfg) ==
    [config |-> cfg,
     provider |-> _create_provider(cfg),
     tool_definitions |-> get_tool_definitions(cfg.tools)]

\* the {"role", "content"} entry both adapters build for a Message
WireMessage(msg) == [role |-> msg.role, content |-> msg.content]

\* AnthropicProvider.complete: the request built from the conversation; only
\* user and assistant messages are converted
AnthropicRequest(msgs, system_prompt, tools) ==
    LET kept == SelectSeq(msgs, LAMBDA m : m.role \in {USER, ASSISTANT}) IN
    [system |-> Some(system_prompt),
     messages |-> [k \in 1..Len(kept) |-> WireMessage(kept[k])],
     tools |-> IF tools /= None /\ The(tools) /= <<>> THEN tools ELSE None]

\* OpenAIProvider.complete: the request built from the conversation; the
\* system prompt is the first message
OpenAIRequest(msgs, system_prompt, tools) ==
    [system |-> None,
     messages |-> <<[role |-> SYSTEM, content |-> system_prompt]>>
                  \o [k \in 1..Len(msgs) |-> WireMessage(msgs[k])],
     tools |-> IF tools /= None /\ The(tools) /= <<>>
               THEN Some([k \in 1..Len(The(tools)) |->
                            [type |-> "function", function |-> The(tools)[k]]])
               ELSE None]

\* ToolCall(id=..., name=..., arguments=...): pydantic accepts only a mapping
\* for arguments: dict[str, Any]
ToolCallNew(id, name, arguments) ==
    IF arguments.t = "dict"
    THEN Return(Some(ToolCall(id, name, arguments.d)))
    ELSE Raise(Exception("ValidationError",
                         "arguments: Input should be a valid dictionary"))

\* a list built element by element: the first failing element raises
BuildList(outs) ==
    IF \E k \in 1..Len(outs) : outs[k].exc /= None
    THEN outs[CHOOSE k \in 1..Len(outs) :
                /\ outs[k].exc /= None
                /\ \A j \in 1..(k - 1) : outs[j].exc = None]
    ELSE Return(Some([k \in 1..Len(outs) |-> The(outs[k].value)]))

\* the content of the last text block, "" when there is none
AnthropicText(blocks) ==
    LET texts == SelectSeq(blocks, LAMBDA b : b.type = "text") IN
    IF texts = <<>> THEN "" ELSE texts[Len(texts)].text

\* the ToolCalls built from the tool_use blocks, in block order
AnthropicToolCalls(blocks) ==
    LET uses == SelectSeq(blocks, LAMBDA b : b.type = "tool_use") IN
    BuildList([k \in 1..Len(uses) |->
                 ToolCallNew(uses[k].id, uses[k].name, uses[k].input)])

\* variant: the empty tool-call list is kept instead of None
AnthropicParseKeepEmpty(raw) ==
    LET built == AnthropicToolCalls(raw.content) IN
    IF built.exc /= None THEN built
    ELSE Return(Some(Message(ASSISTANT, AnthropicText(raw.content), None, built.value)))

\* AnthropicProvider.complete from the backend's response to the Message
AnthropicParse(raw) ==
    LET built == AnthropicToolCalls(raw.content) IN
    IF built.exc /= None THEN built
    ELSE LET tool_calls == The(built.value) IN
         Return(Some(Message(ASSISTANT, AnthropicText(raw.content), None,
                             IF tool_calls /= <<>> THEN Some(tool_calls) ELSE None)))

\* eval(source) on the argument payloads of the model
PyEval(source) ==
    CASE source = "{\"expression\": \"2+2\"}" ->
            Return(Some(PyDict({<<"expression", "2+2">>})))
      [] source = "{\"expression\": " ->
            Raise(Exception("SyntaxError", "'{' was never closed"))
      [] source = "{\"flag\": true}" ->
            Raise(Exception("NameError", "name 'true' is not defined"))
      [] source = "dict()" -> Return(Some(PyDict({})))
      [] source = "[1]" -> Return(Some(PyList(<<1>>)))
      [] OTHER -> Raise(Exception("SyntaxError", "invalid syntax"))

\* ToolCall(id=tc.id, name=tc.function.name, arguments=eval(tc.function.arguments))
OpenAIToolCall(tc) ==
    LET value == PyEval(tc.arguments) IN
    IF value.exc /= None THEN value
    ELSE ToolCallNew(tc.id, tc.name, The(value.value))

\* OpenAIProvider.complete from the backend's response to the Message
OpenAIParse(raw) ==
    LET content == IF raw.content /= None /\ The(raw.content) /= ""
                   THEN The(raw.content) ELSE "" IN
    IF raw.tool_calls /= None /\ The(raw.tool_calls) /= <<>>
    THEN LET tcs == The(raw.tool_calls)
             built == BuildList([k \in 1..Len(tcs) |-> OpenAIToolCall(tcs[k])]) IN
         IF built.exc /= None THEN built
         ELSE Return(Some(Message(ASSISTANT, content, None, built.value)))
    ELSE Return(Some(Message(ASSISTANT, content, None, None)))

\* the adapter's parse of its backend's response
ParseResponse(provider, raw) ==
    IF provider = "AnthropicProvider" THEN AnthropicParse(raw) ELSE OpenAIParse(raw)

\* the request self.provider.complete sends for Agent.chat's call
BuildRequest(ag, msgs) ==
    LET tools == IF ag.config.tools /= <<>> THEN Some(ag.tool_definitions) ELSE None IN
    IF ag.provider = "AnthropicProvider"
    THEN AnthropicRequest(msgs, ag.config.system_prompt, tools)
    ELSE OpenAIRequest(msgs, ag.config.system_prompt, tools)

\* default of Agent.chat's max_iterations
DefaultMaxIterations == 10

\* variant: an unknown identifier falls back to the default agent
get_agent_fallback(id) ==
    IF id \in DOMAIN DEFAULT_AGENTS
    THEN Some(AgentNew(DEFAULT_AGENTS[id]))
    ELSE Some(AgentNew(DEFAULT_AGENTS["assistant"]))

\* get_agent: Agent(config) for the configuration DEFAULT_AGENTS.get(agent_id)
\* finds, None when the identifier is unknown
get_agent(id) ==
    IF id \in DOMAIN DEFAULT_AGENTS THEN Some(AgentNew(DEFAULT_AGENTS[id])) ELSE None

\* variant: the loop test admits one iteration too many
LoopCondLe(its, cap) == its <= cap

\* variant: the loop has no cap ("while True")
LoopCondAlways(its, cap) == TRUE

\* variant: the first pass is made before the cap is looked at (the loop
\* starts by requesting)
LoopCondAtLeastOnce(its, cap) == its = 0 \/ its < cap

\* the condition of the while loop of Agent.chat
LoopCond(its, cap) == its < cap

\* "if not response.tool_calls": None and the empty list are both falsy
HasToolCalls(msg) == msg.tool_calls /= None /\ The(msg.tool_calls) /= <<>>

\* variant: the tool-role Message does not carry the call's identifier
ToolMessageNoId(result, tool_call) ==
    Message(TOOL,
            IF Truthy(result.result) THEN StrOfOpt(result.result)
            ELSE IF result.error /= None /\ The(result.error) /= "" THEN The(result.error)
            ELSE "",
            None, None)

\* the tool-role Message appended for a ToolResult
ToolMessage(result, tool_call) ==
    Message(TOOL,
            IF Truthy(result.result) THEN StrOfOpt(result.result)
            ELSE IF result.error /= None /\ The(result.error) /= "" THEN The(result.error)
            ELSE "",
            Some(tool_call.id), None)

\* the Message returned when the loop runs out of iterations
LimitMessage ==
    Message(ASSISTANT,
            "I've reached the maximum number of steps. Please try again with a simpler request.",
            None, None)

\* variant: no except clause, a failure of Tool.execute propagates
_execute_tool_no_except(tool_call, now) ==
    LET tool == get_tool(tool_call.name) IN
    IF tool = None
    THEN [out |-> Return(Some(ToolResult(tool_call.id, None,
                                         Some("Tool not found: " \o tool_call.name)))),
          invoked |-> <<>>]
    ELSE LET result == ToolExecute(The(tool), tool_call.arguments, now)
             inv == <<[name |-> tool_call.name, id |-> tool_call.id]>> IN
         IF result.exc = None
         THEN [out |-> Return(Some(ToolResult(tool_call.id, result.value, None))),
               invoked |-> inv]
         ELSE [out |-> result, invoked |-> inv]

\* variant: the error is the exception's class name instead of str(e)
_execute_tool_type_name(tool_call, now) ==
    LET tool == get_tool(tool_call.name) IN
    IF tool = None
    THEN [out |-> Return(Some(ToolResult(tool_call.id, None,
                                         Some("Tool not found: " \o tool_call.name)))),
          invoked |-> <<>>]
    ELSE LET result == ToolExecute(The(tool), tool_call.arguments, now)
             inv == <<[name |-> tool_call.name, id |-> tool_call.id]>> IN
         IF result.exc = None
         THEN [out |-> Return(Some(ToolResult(tool_call.id, result.value, None))),
               invoked |-> inv]
         ELSE [out |-> Return(Some(ToolResult(tool_call.id, None,
                                              Some(The(result.exc).type)))),
               invoked |-> inv]

\* variant: the except clause also stores the failure text as the result
_execute_tool_error_as_result(tool_call, now) ==
    LET tool == get_tool(tool_call.name) IN
    IF tool = None
    THEN [out |-> Return(Some(ToolResult(tool_call.id, None,
                                         Some("Tool not found: " \o tool_call.name)))),
          invoked |-> <<>>]
    ELSE LET result == ToolExecute(The(tool), tool_call.arguments, now)
             inv == <<[name |-> tool_call.name, id |-> tool_call.id]>> IN
         IF result.exc = None
         THEN [out |-> Return(Some(ToolResult(tool_call.id, result.value, None))),
               invoked |-> inv]
         ELSE [out |-> Return(Some(ToolResult(tool_call.id,
                                              Some(PyStr(StrOfExc(The(result.exc)))),
                                              Some(StrOfExc(The(result.exc)))))),
               invoked |-> inv]

\* Agent._execute_tool: the outcome of the call and the Tool.execute
\* invocations it made
_execute_tool(tool_call, now) ==
    LET tool == get_tool(tool_call.name) IN
    IF tool = None
    THEN [out |-> Return(Some(ToolResult(tool_call.id, None,
                                         Some("Tool not found: " \o tool_call.name)))),
          invoked |-> <<>>]
    ELSE LET result == ToolExecute(The(tool), tool_call.arguments, now)
             inv == <<[name |-> tool_call.name, id |-> tool_call.id]>> IN
         IF result.exc = None
         THEN [out |-> Return(Some(ToolResult(tool_call.id, result.value, None))),
               invoked |-> inv]
         ELSE IF IsException(The(result.exc))
         THEN [out |-> Return(Some(ToolResult(tool_call.id, None,
                                              Some(StrOfExc(The(result.exc)))))),
               invoked |-> inv]
         ELSE [out |-> result, invoked |-> inv]

-----------------------------------------------------------------------------
(* The environment: callers, the provider and the clock *)

\* agent identifiers a request may carry (one of them unknown)
AgentIds == {"assistant", "coder", "ghost"}

\* ChatRequest.message
UserText == "what is 2+2"

\* the <<name, arguments>> pairs a provider response may request
CallKinds ==
    { <<"calculator", {<<"expression", "2+2">>}>>,     \* returns 4.0
      <<"calculator", {<<"expression", "1/0">>}>>,     \* raises ValueError
      <<"calculator", {}>>,                            \* raises KeyError
      <<"json_parse", {<<"json_string", "null">>}>>,   \* returns None
      <<"web_search", {<<"query", "x">>}>> }           \* not registered

\* identifier of the j-th tool call of the i-th completion
CallId(i, j) == "call_" \o ToString(i) \o "_" \o ToString(j)

\* the tool-call lists of the i-th completion
ToolCallLists(i) ==
    { [j \in 1..Len(ks) |-> ToolCall(CallId(i, j), ks[j][1], ks[j][2])] :
        ks \in UNION { [1..n -> CallKinds] : n \in 1..MaxBatch } }

\* the Messages provider.complete may return as the i-th completion
ProviderResponses(i) ==
    { Message(ASSISTANT, "4", None, None),
      Message(ASSISTANT, "4", None, Some(<<>>)) }
    \cup { Message(ASSISTANT, "", None, Some(tcs)) : tcs \in ToolCallLists(i) }

\* the <<name, arguments>> pairs of the calls whose results are rendered:
\* truthy and falsy values, no value, a failure, an unknown tool
ValueCallKinds ==
    { <<"calculator", {<<"expression", "2+2">>}>>,      \* returns 4.0
      <<"calculator", {<<"expression", "0*5">>}>>,      \* returns 0.0
      <<"calculator", {<<"expression", "1/0">>}>>,      \* raises ValueError
      <<"json_parse", {<<"json_string", "{}">>}>>,      \* returns {}
      <<"json_parse", {<<"json_string", "[]">>}>>,      \* returns []
      <<"json_parse", {<<"json_string", "false">>}>>,   \* returns False
      <<"json_parse", {<<"json_string", "null">>}>>,    \* returns None
      <<"web_search", {<<"query", "x">>}>> }            \* not registered

\* the Messages provider.complete may return as the i-th completion when it
\* asks for one call at a time
ValueResponses(i) ==
    { Message(ASSISTANT, "4", None, None) }
    \cup { Message(ASSISTANT, "", None, Some(<<ToolCall(CallId(i, 1), kind[1], kind[2])>>)) :
             kind \in ValueCallKinds }

\* the two concurrent invocations ask different questions
OwnUserText(self) == IF self = 1 THEN "what is 2+2" ELSE "what is 1/0"

\* the <<name, arguments>> pairs the provider asks for in invocation self
OwnCallKinds(self) ==
    IF self = 1
    THEN { <<"calculator", {<<"expression", "2+2">>}>>,
           <<"web_search", {<<"query", "x">>}>> }
    ELSE { <<"calculator", {<<"expression", "1/0">>}>>,
           <<"json_parse", {<<"json_string", "{}">>}>> }

\* the Messages provider.complete may return to invocation self as its i-th
\* completion
OwnResponses(self, i) ==
    { Message(ASSISTANT, IF self = 1 THEN "4" ELSE "undefined", None, None) }
    \cup { Message(ASSISTANT, "", None, Some(<<ToolCall(CallId(i, 1), kind[1], kind[2])>>)) :
             kind \in OwnCallKinds(self) }

\* the failures provider.complete may raise
ProviderFailures == { Exception("APIConnectionError", "Connection error.") }

\* response.content of the Anthropic backend for the i-th request: text and
\* tool_use blocks; the input of a tool_use block is any JSON value
AnthropicResponses(i) ==
    LET use(j, name, input) ==
            [type |-> "tool_use", id |-> CallId(i, j), name |-> name, input |-> input]
        good == PyDict({<<"expression", "2+2">>}) IN
    { [content |-> blocks] : blocks \in
        { <<[type |-> "text", text |-> "4"]>>,
          <<>>,
          <<[type |-> "text", text |-> "Let me compute."], use(1, "calculator", good)>>,
          <<use(1, "calculator", good), use(2, "web_search", PyDict({<<"query", "x">>}))>>,
          <<use(1, "calculator", PyStr("2+2"))>>,
          <<use(1, "calculator", good), use(2, "calculator", PyList(<<1>>))>> } }

\* choices[0].message of the OpenAI backend for the i-th request: the
\* arguments of a tool call are a string
OpenAIResponses(i) ==
    LET tc(j, name, arguments) ==
            [id |-> CallId(i, j), name |-> name, arguments |-> arguments]
        good == "{\"expression\": \"2+2\"}" IN
    { [content |-> Some("4"), tool_calls |-> None],
      [content |-> None, tool_calls |-> Some(<<>>)] }
    \cup { [content |-> None, tool_calls |-> Some(<<tc(1, "calculator", arguments)>>)] :
             arguments \in {good, "{\"expression\": ", "{\"flag\": true}",
                            "dict()", "[1]"} }
    \cup { [content |-> None,
            tool_calls |-> Some(<<tc(1, "calculator", good),
                                  tc(2, "calculator", "{\"expression\": ")>>)] }

\* what the backend of the provider may answer to the i-th request
BackendResponses(provider, i) ==
    IF provider = "AnthropicProvider" THEN AnthropicResponses(i) ELSE OpenAIResponses(i)

\* the tool calls a backend response asks for
NumCalls(provider, raw) ==
    IF provider = "AnthropicProvider"
    THEN Len(SelectSeq(raw.content, LAMBDA b : b.type = "tool_use"))
    ELSE IF raw.tool_calls = None THEN 0 ELSE Len(The(raw.tool_calls))

\* the names a config.tools list may hold; web_search is not registered
ConfigToolNames == {"calculator", "json_parse", "web_search"}

\* the provider kinds of AgentConfig.provider
ProviderKinds == {"anthropic", "openai"}

\* the configurations Agent(config) is constructed from
CustomConfigs ==
    { AgentConfig("custom", "echo tool results", kind, tools) :
        kind \in ProviderKinds,
        tools \in UNION { [1..n -> ConfigToolNames] : n \in 0..MaxTools } }

\* ChatRequest.conversation_id: absent, empty, or given
RequestConversationIds == {None, Some(""), Some("conv-1")}

\* str(uuid.uuid4()): a fresh identifier
Uuid4 == "uuid4"

\* values of datetime.utcnow()
Clock == { [date |-> "2026-01-01", time |-> "12:00:00"] }

-----------------------------------------------------------------------------
(* Initial states: a direct call of Agent.chat, or a POST to the chat route *)

\* what every initial state has in common: nothing has run yet
Fresh ==
    /\ tool_results = <<>>
    /\ iterations = 0
    /\ response = None
    /\ idx = 0
    /\ ret = None
    /\ exc = None
    /\ http = None
    /\ provider_calls = 0
    /\ batches = 0
    /\ completions = <<>>
    /\ executed = <<>>
    /\ requests = <<>>
    /\ backend_responses = <<>>

Init ==
    /\ TOOLS = TOOLS_at_import
    /\ caller \in {"direct", "route"}
    /\ \/ /\ caller = "direct"
          /\ agent_id \in DOMAIN DEFAULT_AGENTS
          /\ max_iterations \in 0..MaxCap
          /\ messages = <<Message(USER, UserText, None, None)>>
          /\ current_messages = messages
          /\ config = Some(DEFAULT_AGENTS[agent_id])
          /\ agent = Some(AgentNew(The(config)))
          /\ pc = "loop"
       \/ /\ caller = "route"
          /\ agent_id \in AgentIds
          /\ max_iterations = DefaultMaxIterations
          /\ messages = <<>>
          /\ current_messages = <<>>
          /\ config = None
          /\ agent = None
          /\ pc = "route"
    /\ Fresh
    /\ msg_args = None
    /\ msg_out = None
    /\ parked = None

-----------------------------------------------------------------------------
(* src/api/chat.py *)

\* chat(request) up to the call of agent.chat
RouteChat ==
    /\ pc = "route"
    /\ IF get_agent(agent_id) = None
       THEN /\ http' = Some([status |-> 404, detail |-> "Agent not found: " \o agent_id])
            /\ pc' = "responded"
            /\ UNCHANGED <<messages, current_messages, config, agent>>
       ELSE /\ agent' = get_agent(agent_id)
            /\ config' = Some(The(agent').config)
            /\ messages' = <<Message(USER, UserText, None, None)>>
            /\ current_messages' = messages'
            /\ pc' = "loop"
            /\ UNCHANGED http
    /\ UNCHANGED <<caller, agent_id, max_iterations, tool_results, iterations,
                   response, idx, ret, exc, provider_calls, batches, completions,
                   executed>>
    /\ UNCHANGED <<TOOLS, requests, backend_responses, msg_args, msg_out, parked>>

\* ToolResult.model_dump(): the dict of the model's fields
ToolResultDump(tr) ==
    [tool_call_id |-> tr.tool_call_id, result |-> tr.result, error |-> tr.error]

\* request.conversation_id or str(uuid.uuid4()): None and "" are falsy
ConversationId(requested) ==
    IF requested /= None /\ The(requested) /= "" THEN The(requested) ELSE Uuid4

\* variant: the envelope reports failure as soon as one tool result is an error
FailureEnvelopeOnToolError(message, results, conversation_id) ==
    [status |-> 200,
     success |-> \A k \in 1..Len(results) : results[k].error = None,
     message |-> message,
     conversation_id |-> conversation_id,
     tool_results |-> IF results /= <<>>
                      THEN Some([k \in 1..Len(results) |-> ToolResultDump(results[k])])
                      ELSE None]

\* ApiResponse(success=True, data=ChatResponse(...).model_dump()), served
\* with status 200
SuccessEnvelope(message, results, conversation_id) ==
    [status |-> 200,
     success |-> TRUE,
     message |-> message,
     conversation_id |-> conversation_id,
     tool_results |-> IF results /= <<>>
                      THEN Some([k \in 1..Len(results) |-> ToolResultDump(results[k])])
                      ELSE None]

\* chat(request) from the return of agent.chat: the envelope, or HTTP 500
RouteRespond ==
    /\ caller = "route"
    /\ pc \in {"returned", "raised"}
    /\ IF pc = "returned"
       THEN \E requested \in RequestConversationIds :
               http' = Some(SuccessEnvelope(The(ret)[1], The(ret)[2],
                                            ConversationId(requested)))
       ELSE http' = Some([status |-> 500, detail |-> StrOfExc(The(exc))])
    /\ pc' = "responded"
    /\ UNCHANGED <<caller, agent_id, max_iterations, messages, current_messages,
                   tool_results, iterations, response, idx, ret, exc,
                   provider_calls, batches, completions, executed>>
    /\ UNCHANGED <<TOOLS, config, agent, requests, backend_responses, msg_args, msg_out, parked>>

-----------------------------------------------------------------------------
(* Agent.chat *)

\* variant: the advisory message is returned without the accumulated results
LimitReturnNoResults(results) == <<LimitMessage, <<>>>>

\* variant: at the limit the last response is returned, tool calls and all
LimitReturnLastResponse(results) ==
    <<IF response = None THEN LimitMessage ELSE The(response), results>>

\* what Agent.chat returns when the loop runs out of iterations
LimitReturn(results) == <<LimitMessage, results>>

\* the while test; either the next provider.complete call is issued or the
\* loop is left and the advisory message returned
LoopHead ==
    /\ pc = "loop"
    /\ IF LoopCond(iterations, max_iterations)
       THEN /\ iterations' = iterations + 1
            /\ provider_calls' = provider_calls + 1
            /\ requests' = Append(requests, BuildRequest(The(agent), current_messages))
            /\ pc' = "requesting"
            /\ UNCHANGED ret
       ELSE /\ ret' = Some(LimitReturn(tool_results))
            /\ pc' = "returned"
            /\ UNCHANGED <<iterations, provider_calls, requests>>
    /\ UNCHANGED <<caller, agent_id, max_iterations, messages, current_messages,
                   tool_results, response, idx, exc, http, batches, completions,
                   executed>>
    /\ UNCHANGED <<TOOLS, config, agent, backend_responses, msg_args, msg_out, parked>>

\* variant: the final response is returned without the accumulated results
FinalReturnNoResults(resp, results) == <<resp, <<>>>>

\* what Agent.chat returns for a response without tool calls
FinalReturn(resp, results) == <<resp, results>>

\* variant: current_messages is the caller's list itself (no copy), so an
\* append shows in it
MessagesAfterAppendAliased(msgs, conv) == conv

\* the caller's list after current_messages.append(...): current_messages is
\* list(messages), a list of its own
MessagesAfterAppend(msgs, conv) == msgs

\* variant: the tool calls are left to run in the background and the loop
\* goes on to its next iteration at once
ChatReceivesNoWait(resp) ==
    /\ response' = Some(resp)
    /\ IF ~HasToolCalls(resp)
       THEN /\ ret' = Some(FinalReturn(resp, tool_results))
            /\ pc' = "returned"
            /\ UNCHANGED <<messages, current_messages, idx, batches>>
       ELSE /\ current_messages' = Append(current_messages, resp)
            /\ messages' = MessagesAfterAppend(messages, current_messages')
            /\ idx' = 1
            /\ batches' = batches + 1
            /\ pc' = "loop"
            /\ UNCHANGED ret

\* Agent.chat from the return of provider.complete: the response is returned,
\* or appended to the conversation and its batch of tool calls started
ChatReceives(resp) ==
    /\ response' = Some(resp)
    /\ IF ~HasToolCalls(resp)
       THEN /\ ret' = Some(FinalReturn(resp, tool_results))
            /\ pc' = "returned"
            /\ UNCHANGED <<messages, current_messages, idx, batches>>
       ELSE /\ current_messages' = Append(current_messages, resp)
            /\ messages' = MessagesAfterAppend(messages, current_messages')
            /\ idx' = 1
            /\ batches' = batches + 1
            /\ pc' = IF The(resp.tool_calls) = <<>> THEN "loop" ELSE "dispatching"
            /\ UNCHANGED ret

\* provider.complete returns resp
ProviderReturns ==
    /\ pc = "requesting"
    /\ \E resp \in ProviderResponses(provider_calls) :
        /\ resp.tool_calls /= None =>
              Len(tool_results) + Len(The(resp.tool_calls)) <= MaxToolCalls
        /\ completions' = Append(completions, Return(Some(resp)))
        /\ ChatReceives(resp)
    /\ UNCHANGED <<caller, agent_id, max_iterations, tool_results,
                   iterations, exc, http, provider_calls, executed>>
    /\ UNCHANGED <<TOOLS, config, agent, requests, backend_responses, msg_args, msg_out, parked>>

\* variant: the failure is caught and answered with an apology
ProviderFailsSwallowed ==
    /\ pc = "requesting"
    /\ \E e \in ProviderFailures :
        /\ completions' = Append(completions, Raise(e))
        /\ ret' = Some(<<Message(ASSISTANT, "Sorry, something went wrong.", None, None),
                         tool_results>>)
        /\ pc' = "returned"
    /\ UNCHANGED <<caller, agent_id, max_iterations, messages, current_messages,
                   tool_results, iterations, response, idx, exc, http,
                   provider_calls, batches, executed>>
    /\ UNCHANGED <<TOOLS, config, agent, requests, backend_responses, msg_args, msg_out, parked>>

\* provider.complete raises: nothing in Agent.chat catches it
ProviderFails ==
    /\ pc = "requesting"
    /\ \E e \in ProviderFailures :
        /\ completions' = Append(completions, Raise(e))
        /\ exc' = Some(e)
        /\ pc' = "raised"
    /\ UNCHANGED <<caller, agent_id, max_iterations, messages, current_messages,
                   tool_results, iterations, response, idx, ret, http,
                   provider_calls, batches, executed>>
    /\ UNCHANGED <<TOOLS, config, agent, requests, backend_responses, msg_args, msg_out, parked>>

\* variant: only the results of successful calls are accumulated
AppendResultIfOk(results, result) ==
    IF result.error = None THEN Append(results, result) ELSE results

\* tool_results.append(result)
AppendResult(results, result) == Append(results, result)

\* one pass of "for tool_call in response.tool_calls"
DispatchToolCall ==
    /\ pc = "dispatching"
    /\ \E now \in Clock :
        LET tool_calls == The(The(response).tool_calls)
            tool_call == tool_calls[idx]
            call == _execute_tool(tool_call, now) IN
        /\ executed' = executed \o call.invoked
        /\ TOOLS' = TOOLS_after_lookup(tool_call.name)
        /\ IF call.out.exc /= None
           THEN /\ exc' = call.out.exc
                /\ pc' = "raised"
                /\ UNCHANGED <<tool_results, messages, current_messages, idx>>
           ELSE LET result == The(call.out.value) IN
                /\ tool_results' = AppendResult(tool_results, result)
                /\ current_messages' = Append(current_messages,
                                              ToolMessage(result, tool_call))
                /\ messages' = MessagesAfterAppend(messages, current_messages')
                /\ idx' = idx + 1
                /\ pc' = IF idx < Len(tool_calls) THEN "dispatching" ELSE "loop"
                /\ UNCHANGED exc
    /\ UNCHANGED <<caller, agent_id, max_iterations, iterations,
                   response, ret, http, provider_calls, batches, completions>>
    /\ UNCHANGED <<config, agent, requests, backend_responses, msg_args, msg_out, parked>>

Next ==
    \/ RouteChat
    \/ LoopHead
    \/ ProviderReturns
    \/ ProviderFails
    \/ DispatchToolCall
    \/ RouteRespond

Spec == Init /\ [][Next]_vars

\* Agent.chat called directly on a default agent, with any cap up to MaxCap
InitLive ==
    /\ TOOLS = TOOLS_at_import
    /\ caller = "direct"
    /\ agent_id \in DOMAIN DEFAULT_AGENTS
    /\ max_iterations \in 0..MaxCap
    /\ messages = <<Message(USER, UserText, None, None)>>
    /\ current_messages = messages
    /\ config = Some(DEFAULT_AGENTS[agent_id])
    /\ agent = Some(AgentNew(The(config)))
    /\ pc = "loop"
    /\ Fresh
    /\ msg_args = None
    /\ msg_out = None
    /\ parked = None

\* the steps of one invocation of Agent.chat
NextLive ==
    \/ LoopHead
    \/ ProviderReturns
    \/ ProviderFails
    \/ DispatchToolCall

\* every awaited provider call and tool execution returns or fails, and the
\* event loop then resumes the coroutine: a step that is possible is taken
SpecLive == InitLive /\ [][NextLive]_vars /\ WF_vars(NextLive)

-----------------------------------------------------------------------------
(* Agent(config) for an arbitrary configuration *)

InitConstruct ==
    /\ TOOLS = TOOLS_at_import
    /\ caller = "construct"
    /\ agent_id = "custom"
    /\ max_iterations = DefaultMaxIterations
    /\ messages = <<>>
    /\ current_messages = <<>>
    /\ config \in { Some(cfg) : cfg \in CustomConfigs }
    /\ agent = None
    /\ pc = "construct"
    /\ Fresh
    /\ msg_args = None
    /\ msg_out = None
    /\ parked = None

\* Agent.__init__(config)
ConstructAgent ==
    /\ pc = "construct"
    /\ agent' = Some(AgentNew(The(config)))
    /\ pc' = "constructed"
    /\ UNCHANGED <<caller, agent_id, max_iterations, messages, current_messages,
                   tool_results, iterations, response, idx, ret, exc, http,
                   provider_calls, batches, completions, executed>>
    /\ UNCHANGED <<TOOLS, config, requests, backend_responses, msg_args, msg_out, parked>>

NextConstruct == ConstructAgent

SpecConstruct == InitConstruct /\ [][NextConstruct]_vars

-----------------------------------------------------------------------------
(* Agent.chat over the two provider adapters and their backends *)

InitAdapters ==
    /\ TOOLS = TOOLS_at_import
    /\ caller = "direct"
    /\ agent_id = "custom"
    /\ max_iterations \in -1..MaxCap
    /\ messages = <<Message(USER, UserText, None, None)>>
    /\ current_messages = messages
    /\ config \in { Some(AgentConfig("custom", "echo tool results", kind, tools)) :
                      kind \in ProviderKinds, tools \in {<<>>, <<"calculator">>} }
    /\ agent = Some(AgentNew(The(config)))
    /\ pc = "loop"
    /\ Fresh
    /\ msg_args = None
    /\ msg_out = None
    /\ parked = None

\* client.messages.create / client.chat.completions.create returns raw and
\* the adapter parses it; a failing parse leaves complete and Agent.chat
BackendReturns ==
    /\ pc = "requesting"
    /\ \E raw \in BackendResponses(The(agent).provider, provider_calls) :
        LET out == ParseResponse(The(agent).provider, raw) IN
        /\ Len(tool_results) + NumCalls(The(agent).provider, raw) <= MaxToolCalls
        /\ backend_responses' = Append(backend_responses, Return(Some(raw)))
        /\ completions' = Append(completions, out)
        /\ IF out.exc /= None
           THEN /\ exc' = out.exc
                /\ pc' = "raised"
                /\ UNCHANGED <<response, ret, messages, current_messages, idx, batches>>
           ELSE /\ ChatReceives(The(out.value))
                /\ UNCHANGED exc
    /\ UNCHANGED <<caller, agent_id, max_iterations, tool_results,
                   iterations, http, provider_calls, executed>>
    /\ UNCHANGED <<TOOLS, config, agent, requests, msg_args, msg_out, parked>>

\* variant: the adapter sends a failed request once more
BackendFailsRetried ==
    /\ pc = "requesting"
    /\ \E e \in ProviderFailures :
        /\ backend_responses' = Append(backend_responses, Raise(e))
        /\ IF Len(requests) = provider_calls
           THEN /\ requests' = Append(requests, requests[Len(requests)])
                /\ UNCHANGED <<completions, exc, pc>>
           ELSE /\ completions' = Append(completions, Raise(e))
                /\ exc' = Some(e)
                /\ pc' = "raised"
                /\ UNCHANGED requests
    /\ UNCHANGED <<caller, agent_id, max_iterations, messages, current_messages,
                   tool_results, iterations, response, idx, ret, http,
                   provider_calls, batches, executed>>
    /\ UNCHANGED <<TOOLS, config, agent, msg_args, msg_out, parked>>

\* the backend call raises: the failure leaves complete and Agent.chat
BackendFails ==
    /\ pc = "requesting"
    /\ \E e \in ProviderFailures :
        /\ backend_responses' = Append(backend_responses, Raise(e))
        /\ completions' = Append(completions, Raise(e))
        /\ exc' = Some(e)
        /\ pc' = "raised"
    /\ UNCHANGED <<caller, agent_id, max_iterations, messages, current_messages,
                   tool_results, iterations, response, idx, ret, http,
                   provider_calls, batches, executed>>
    /\ UNCHANGED <<TOOLS, config, agent, requests, msg_args, msg_out, parked>>

NextAdapters ==
    \/ LoopHead
    \/ BackendReturns
    \/ BackendFails
    \/ DispatchToolCall

SpecAdapters == InitAdapters /\ [][NextAdapters]_vars

-----------------------------------------------------------------------------
(* Agent.chat over tools that return truthy, falsy and no values *)

InitRender ==
    /\ TOOLS = TOOLS_at_import
    /\ caller = "direct"
    /\ agent_id \in DOMAIN DEFAULT_AGENTS
    /\ max_iterations \in 1..MaxCap
    /\ messages = <<Message(USER, UserText, None, None)>>
    /\ current_messages = messages
    /\ config = Some(DEFAULT_AGENTS[agent_id])
    /\ agent = Some(AgentNew(The(config)))
    /\ pc = "loop"
    /\ Fresh
    /\ msg_args = None
    /\ msg_out = None
    /\ parked = None

\* provider.complete returns a text or one tool call
ProviderReturnsValueCall ==
    /\ pc = "requesting"
    /\ \E resp \in ValueResponses(provider_calls) :
        /\ completions' = Append(completions, Return(Some(resp)))
        /\ ChatReceives(resp)
    /\ UNCHANGED <<caller, agent_id, max_iterations, tool_results,
                   iterations, exc, http, provider_calls, executed>>
    /\ UNCHANGED <<TOOLS, config, agent, requests, backend_responses, msg_args, msg_out, parked>>

NextRender ==
    \/ LoopHead
    \/ ProviderReturnsValueCall
    \/ DispatchToolCall

SpecRender == InitRender /\ [][NextRender]_vars

-----------------------------------------------------------------------------
(* Two Agent.chat coroutines on one event loop *)

\* the parameters, locals and observers of the running invocation
Frame ==
    [agent_id |-> agent_id,
     max_iterations |-> max_iterations,
     messages |-> messages,
     current_messages |-> current_messages,
     tool_results |-> tool_results,
     iterations |-> iterations,
     response |-> response,
     idx |-> idx,
     pc |-> pc,
     ret |-> ret,
     exc |-> exc,
     provider_calls |-> provider_calls,
     batches |-> batches,
     completions |-> completions,
     executed |-> executed,
     requests |-> requests,
     config |-> config,
     agent |-> agent]

\* the frame of invocation self before its first step
InitialFrame(self, id, cap) ==
    [agent_id |-> id,
     max_iterations |-> cap,
     messages |-> <<Message(USER, OwnUserText(self), None, None)>>,
     current_messages |-> <<Message(USER, OwnUserText(self), None, None)>>,
     tool_results |-> <<>>,
     iterations |-> 0,
     response |-> None,
     idx |-> 0,
     pc |-> "loop",
     ret |-> None,
     exc |-> None,
     provider_calls |-> 0,
     batches |-> 0,
     completions |-> <<>>,
     executed |-> <<>>,
     requests |-> <<>>,
     config |-> Some(DEFAULT_AGENTS[id]),
     agent |-> Some(AgentNew(DEFAULT_AGENTS[id]))]

\* invocation 1 runs, invocation 2 is parked; TOOLS is the one module-level
\* registry
InitTwo ==
    /\ TOOLS = TOOLS_at_import
    /\ caller = "direct"
    /\ \E cap \in 1..MaxCap :
        LET f == InitialFrame(1, "assistant", cap) IN
        /\ agent_id = f.agent_id
        /\ max_iterations = f.max_iterations
        /\ messages = f.messages
        /\ current_messages = f.current_messages
        /\ tool_results = f.tool_results
        /\ iterations = f.iterations
        /\ response = f.response
        /\ idx = f.idx
        /\ pc = f.pc
        /\ ret = f.ret
        /\ exc = f.exc
        /\ provider_calls = f.provider_calls
        /\ batches = f.batches
        /\ completions = f.completions
        /\ executed = f.executed
        /\ requests = f.requests
        /\ config = f.config
        /\ agent = f.agent
    /\ parked \in { Some([self |-> 2, frame |-> InitialFrame(2, id, cap)]) :
                      id \in DOMAIN DEFAULT_AGENTS, cap \in 1..MaxCap }
    /\ http = None
    /\ backend_responses = <<>>
    /\ msg_args = None
    /\ msg_out = None

\* the invocation that is running
Running == 3 - The(parked).self

\* provider.complete returns to the running invocation
ProviderReturnsOwn ==
    /\ pc = "requesting"
    /\ parked /= None
    /\ \E resp \in OwnResponses(Running, provider_calls) :
        /\ completions' = Append(completions, Return(Some(resp)))
        /\ ChatReceives(resp)
    /\ UNCHANGED <<caller, agent_id, max_iterations, tool_results,
                   iterations, exc, http, provider_calls, executed>>
    /\ UNCHANGED <<TOOLS, config, agent, requests, backend_responses, msg_args, msg_out, parked>>

\* variant: tool_results is one list shared by the invocations
SwitchSharedResults ==
    /\ parked /= None
    /\ LET f == The(parked).frame IN
       /\ parked' = Some([self |-> Running, frame |-> Frame])
       /\ agent_id' = f.agent_id
       /\ max_iterations' = f.max_iterations
       /\ messages' = f.messages
       /\ current_messages' = f.current_messages
       /\ iterations' = f.iterations
       /\ response' = f.response
       /\ idx' = f.idx
       /\ pc' = f.pc
       /\ ret' = f.ret
       /\ exc' = f.exc
       /\ provider_calls' = f.provider_calls
       /\ batches' = f.batches
       /\ completions' = f.completions
       /\ executed' = f.executed
       /\ requests' = f.requests
       /\ config' = f.config
       /\ agent' = f.agent
    /\ UNCHANGED <<tool_results, caller, http, TOOLS, backend_responses, msg_args, msg_out>>

\* the event loop suspends the running coroutine and resumes the other one
Switch ==
    /\ parked /= None
    /\ LET f == The(parked).frame IN
       /\ parked' = Some([self |-> Running, frame |-> Frame])
       /\ agent_id' = f.agent_id
       /\ max_iterations' = f.max_iterations
       /\ messages' = f.messages
       /\ current_messages' = f.current_messages
       /\ tool_results' = f.tool_results
       /\ iterations' = f.iterations
       /\ response' = f.response
       /\ idx' = f.idx
       /\ pc' = f.pc
       /\ ret' = f.ret
       /\ exc' = f.exc
       /\ provider_calls' = f.provider_calls
       /\ batches' = f.batches
       /\ completions' = f.completions
       /\ executed' = f.executed
       /\ requests' = f.requests
       /\ config' = f.config
       /\ agent' = f.agent
    /\ UNCHANGED <<caller, http, TOOLS, backend_responses, msg_args, msg_out>>

NextTwo ==
    \/ LoopHead
    \/ ProviderReturnsOwn
    \/ ProviderFails
    \/ DispatchToolCall
    \/ Switch

SpecTwo == InitTwo /\ [][NextTwo]_vars

-----------------------------------------------------------------------------
(* Message(...) for arbitrary arguments *)

\* the values of MessageRole
MessageRoles == {SYSTEM, USER, ASSISTANT, TOOL}

\* Message(role=..., content=..., tool_call_id=..., tool_calls=...): pydantic
\* checks the field types only (role a MessageRole, content a str); the model
\* declares no validator
MessageNew(args) ==
    IF args.role \notin MessageRoles
    THEN Raise(Exception("ValidationError", "role: Input should be 'system', 'user', 'assistant' or 'tool'"))
    ELSE IF args.content = None
    THEN Raise(Exception("ValidationError", "content: Input should be a valid string"))
    ELSE Return(Some(Message(args.role, The(args.content), args.tool_call_id,
                             args.tool_calls)))

\* the arguments Message is constructed with
MessageArguments ==
    LET tc(id) == ToolCall(id, "calculator", {<<"expression", "2+2">>}) IN
    [role : MessageRoles \cup {"robot"},
     content : {None, Some(""), Some("4")},
     tool_call_id : {None, Some("call_1_1")},
     tool_calls : {None, Some(<<>>), Some(<<tc("call_1_1")>>),
                   Some(<<tc("call_1_1"), tc("call_1_1")>>),
                   Some(<<tc("call_1_1"), tc("call_1_2")>>)}]

InitMessage ==
    /\ TOOLS = TOOLS_at_import
    /\ caller = "construct"
    /\ agent_id = "custom"
    /\ max_iterations = DefaultMaxIterations
    /\ messages = <<>>
    /\ current_messages = <<>>
    /\ config = None
    /\ agent = None
    /\ pc = "message"
    /\ Fresh
    /\ msg_args \in { Some(args) : args \in MessageArguments }
    /\ msg_out = None
    /\ parked = None

\* Message(**msg_args)
ConstructMessage ==
    /\ pc = "message"
    /\ msg_out' = Some(MessageNew(The(msg_args)))
    /\ pc' = "constructed"
    /\ UNCHANGED <<caller, agent_id, max_iterations, messages, current_messages,
                   tool_results, iterations, response, idx, ret, exc, http,
                   provider_calls, batches, completions, executed>>
    /\ UNCHANGED <<TOOLS, config, agent, requests, backend_responses, msg_args,
                   parked>>

NextMessage == ConstructMessage

SpecMessage == InitMessage /\ [][NextMessage]_vars

-----------------------------------------------------------------------------
(* Vocabulary of the properties *)

\* Agent.chat has returned or raised
ChatDone == ret /= None \/ exc /= None

\* the i-th provider.complete call returned a Message
IsResponse(i) == completions[i].exc = None
ResponseOf(i) == The(completions[i].value)

\* every completion so far returned a Message that carries tool calls
AllToolCallResponses ==
    \A i \in 1..Len(completions) : IsResponse(i) /\ HasToolCalls(ResponseOf(i))

RECURSIVE AllCalls(_)
\* the tool calls of the assistant messages of conv, in conversation order
AllCalls(conv) ==
    IF conv = <<>> THEN <<>>
    ELSE (IF conv[1].role = ASSISTANT /\ conv[1].tool_calls /= None
          THEN The(conv[1].tool_calls) ELSE <<>>) \o AllCalls(Tail(conv))

\* the tool calls of the current batch and the results they produced
BatchCalls == The(The(response).tool_calls)
BatchResults ==
    SubSeq(tool_results, Len(tool_results) - Len(BatchCalls) + 1, Len(tool_results))

\* the loop stands between two iterations, a whole batch just dispatched
BatchDone == pc = "loop" /\ response /= None /\ HasToolCalls(The(response))

RECURSIVE BlocksOK(_, _)
\* conv from position p on is a sequence of blocks, each an assistant message
\* with calls c1..ck followed by the tool messages of c1..ck in that order;
\* only the batch being dispatched may still be incomplete
BlocksOK(conv, p) ==
    IF p > Len(conv) THEN TRUE
    ELSE /\ conv[p].role = ASSISTANT
         /\ conv[p].tool_calls /= None
         /\ LET calls == The(conv[p].tool_calls)
                k == Len(calls)
                d == IF Len(conv) - p < k THEN Len(conv) - p ELSE k IN
            /\ k >= 1
            /\ \A j \in 1..d : /\ conv[p + j].role = TOOL
                               /\ conv[p + j].tool_call_id = Some(calls[j].id)
            /\ d < k => pc = "dispatching" /\ idx = d + 1 /\ response = Some(conv[p])
            /\ d = k => BlocksOK(conv, p + k + 1)

-----------------------------------------------------------------------------
(* Properties *)

\* C1: one invocation of Agent.chat with cap N issues at most N calls of
\* provider.complete, whatever the provider answers.
C1_AtMostCapProviderCalls == provider_calls <= max_iterations

\* a direct call with a cap of at least 2 that used every iteration
C1_Witness ==
    /\ caller = "direct" /\ max_iterations >= 2
    /\ provider_calls = max_iterations /\ ret /= None

\* C2: when every provider response carries a tool call and the cap is N >= 1,
\* Agent.chat ends after exactly N provider calls and N dispatch batches and
\* returns the advisory message with every ToolResult of the N batches.
C2_LimitReachedAfterCapBatches ==
    (ChatDone /\ max_iterations >= 1 /\ AllToolCallResponses) =>
        /\ exc = None
        /\ ret = Some(<<LimitMessage, tool_results>>)
        /\ provider_calls = max_iterations
        /\ batches = max_iterations
        /\ Len(tool_results) = Len(AllCalls(current_messages))
        /\ \A k \in 1..Len(tool_results) :
              tool_results[k].tool_call_id = AllCalls(current_messages)[k].id

\* the cap of 2 exhausted by two tool-call responses
C2_Witness ==
    /\ ChatDone /\ max_iterations = 2 /\ AllToolCallResponses
    /\ Len(completions) = 2 /\ Len(The(ret)[2]) >= 2

\* C3: a provider response without tool calls ends Agent.chat at once: that
\* response is returned with the results of the earlier iterations, and no
\* provider call or tool dispatch follows.
C3_NoToolCallsReturnsAtOnce ==
    (completions /= <<>> /\ IsResponse(Len(completions))
     /\ ~HasToolCalls(ResponseOf(Len(completions)))) =>
        /\ exc = None
        /\ ret = Some(<<ResponseOf(Len(completions)), tool_results>>)
        /\ provider_calls = Len(completions)
        /\ batches = Len(completions) - 1
        /\ Len(tool_results) = Len(AllCalls(current_messages))
        /\ Len(executed) <= Len(tool_results)

\* a plain-text answer in the second iteration, after a batch of tool calls
C3_Witness ==
    /\ Len(completions) = 2 /\ IsResponse(2) /\ ~HasToolCalls(ResponseOf(2))
    /\ ret /= None /\ The(ret)[1].content = "4" /\ Len(The(ret)[2]) >= 1

\* C4: after a dispatch batch the conversation is the previous conversation,
\* then the assistant message, then one tool message per tool call carrying
\* the calls' identifiers in call order, whatever the outcome of each tool.
C4_ToolMessagesInCallOrder ==
    /\ Len(current_messages) >= Len(messages)
    /\ SubSeq(current_messages, 1, Len(messages)) = messages
    /\ BlocksOK(current_messages, Len(messages) + 1)
    /\ BatchDone =>
          LET k == Len(BatchCalls)
              n == Len(current_messages) IN
          /\ n >= Len(messages) + k + 1
          /\ current_messages[n - k] = The(response)
          /\ \A j \in 1..k : /\ current_messages[n - k + j].role = TOOL
                             /\ current_messages[n - k + j].tool_call_id
                                    = Some(BatchCalls[j].id)

\* a second batch of two calls, the first failed and the second succeeded
C4_Witness ==
    /\ BatchDone /\ batches = 2 /\ Len(BatchCalls) = 2
    /\ BatchResults[1].error /= None /\ BatchResults[2].error = None
    /\ Len(current_messages) >= 6

\* the k-th dispatched tool call: the call tool_results[k] answers
DispatchedCall(k) == AllCalls(current_messages)[k]

\* Tool.execute was invoked for the call with this identifier
WasExecuted(id) == \E i \in 1..Len(executed) : executed[i].id = id

\* the last provider.complete call raised
ProviderFailed == completions /= <<>> /\ ~IsResponse(Len(completions))

\* C5: in a batch where one tool raises and another succeeds every call yields
\* a ToolResult (an error for the one, the value for the other), the dispatch
\* never ends Agent.chat with an error, and the next provider call is issued
\* when the cap is not reached.
C5_ErrorIsolation ==
    /\ [](BatchDone =>
            /\ Len(tool_results) >= Len(BatchCalls)
            /\ \A j \in 1..Len(BatchCalls) :
                  LET call == BatchCalls[j]
                      tool == get_tool(call.name) IN
                  /\ BatchResults[j].tool_call_id = call.id
                  /\ tool /= None =>
                        \E now \in Clock :
                            LET o == ToolExecute(The(tool), call.arguments, now) IN
                            IF o.exc /= None
                            THEN BatchResults[j].error /= None
                                 /\ BatchResults[j].result = None
                            ELSE BatchResults[j].error = None
                                 /\ BatchResults[j].result = o.value)
    /\ [][/\ pc = "dispatching" => pc' \in {"dispatching", "loop"}
          /\ (BatchDone /\ iterations < max_iterations) =>
                pc' = "requesting" /\ provider_calls' = provider_calls + 1]_vars

\* the second provider call is awaited after a batch whose first call raised
\* and whose second call returned 4.0
C5_Witness ==
    /\ pc = "requesting" /\ provider_calls = 2 /\ Len(BatchCalls) = 2
    /\ BatchResults[1] = ToolResult(BatchCalls[1].id, None,
                                    Some("Invalid expression: division by zero"))
    /\ BatchResults[2] = ToolResult(BatchCalls[2].id, Some(PyFloat(4)), None)

\* C6: a failure raised by a tool's execute never leaves _execute_tool: it
\* becomes the ToolResult with the call's identifier, result None and error
\* str(e); the only failures Agent.chat raises are the provider's.
C6_ToolFailureBecomesResult ==
    /\ \A k \in 1..Len(tool_results) :
          LET call == DispatchedCall(k)
              tool == get_tool(call.name) IN
          tool /= None =>
             \A now \in Clock :
                LET o == ToolExecute(The(tool), call.arguments, now) IN
                o.exc /= None =>
                   tool_results[k] = ToolResult(call.id, None, Some(StrOfExc(The(o.exc))))
    /\ exc /= None => The(exc) \in ProviderFailures /\ ProviderFailed

\* a KeyError and a ValueError of the calculator, both turned into results
C6_Witness ==
    /\ exc = None
    /\ \E k \in 1..Len(tool_results) : tool_results[k].error = Some("'expression'")
    /\ \E k \in 1..Len(tool_results) :
          tool_results[k].error = Some("Invalid expression: division by zero")

\* C7: a tool call naming a tool that is not in the registry yields the
\* ToolResult with error "Tool not found: <name>" and result None, and no
\* tool's execute is invoked for it.
C7_UnknownToolNotFound ==
    \A k \in 1..Len(tool_results) :
        LET call == DispatchedCall(k) IN
        call.name \notin DOMAIN TOOLS =>
            /\ tool_results[k] = ToolResult(call.id, None,
                                            Some("Tool not found: " \o call.name))
            /\ ~WasExecuted(call.id)

\* a call of web_search answered "Tool not found: web_search"
C7_Witness ==
    \E k \in 1..Len(tool_results) :
        /\ DispatchedCall(k).name = "web_search"
        /\ tool_results[k].error = Some("Tool not found: web_search")
        /\ Len(executed) < Len(tool_results)

\* the tool names the agent's configuration allows
AllowedTools(id) == { DEFAULT_AGENTS[id].tools[i] : i \in 1..Len(DEFAULT_AGENTS[id].tools) }

\* C8: a tool call naming a tool outside the agent's allowed tool list always
\* yields a "not found" ToolResult and the tool is never executed, even when
\* the tool is registered.
C8_DisallowedToolNotFound ==
    agent_id \in DOMAIN DEFAULT_AGENTS =>
        \A k \in 1..Len(tool_results) :
            LET call == DispatchedCall(k) IN
            call.name \notin AllowedTools(agent_id) =>
                /\ tool_results[k].error = Some("Tool not found: " \o call.name)
                /\ ~WasExecuted(call.id)

\* C9: when provider.complete fails Agent.chat stops at once and raises the
\* failure: no provider call and no tool dispatch follows, nothing is
\* returned, and the route answers HTTP 500.
C9_ProviderFailureSurfaces ==
    /\ [](ProviderFailed =>
            /\ exc = completions[Len(completions)].exc
            /\ ret = None
            /\ pc \in {"raised", "responded"}
            /\ provider_calls = Len(completions)
            /\ batches = Len(completions) - 1
            /\ http /= None => The(http).status = 500
                               /\ The(http).detail = StrOfExc(The(exc)))
    /\ [][ProviderFailed =>
            UNCHANGED <<provider_calls, batches, executed, tool_results,
                        current_messages, iterations, exc, ret>>]_vars

\* the second completion of a route request failed, after a batch of tool
\* calls, and the route answered 500
C9_Witness ==
    /\ ProviderFailed /\ Len(completions) = 2 /\ tool_results /= <<>>
    /\ http /= None /\ The(http).status = 500

\* C10: when provider.complete fails after earlier iterations produced
\* ToolResults, the caller receives those ToolResults alongside the error.
C10_ResultsReturnedWithError ==
    (ProviderFailed /\ tool_results /= <<>>) =>
        /\ \/ ret /= None /\ The(ret)[2] = tool_results
           \/ /\ exc /= None
              /\ "tool_results" \in DOMAIN The(exc)
              /\ The(exc).tool_results = tool_results
        /\ http /= None =>
              /\ "tool_results" \in DOMAIN The(http)
              /\ The(http).tool_results = Some(tool_results)

-----------------------------------------------------------------------------
(* The chat route and the worked example *)

\* C15: a chat request naming an unknown agent is answered 404 before any
\* Agent is constructed: no Agent (hence no provider) exists, no request is
\* sent, no provider call is made and no tool is executed for it.
C15_UnknownAgentNotFound ==
    (caller = "route" /\ agent_id \notin DOMAIN DEFAULT_AGENTS) =>
        /\ agent = None
        /\ config = None
        /\ requests = <<>>
        /\ provider_calls = 0
        /\ executed = <<>>
        /\ tool_results = <<>>
        /\ pc \in {"route", "responded"}
        /\ pc = "responded" =>
              http = Some([status |-> 404, detail |-> "Agent not found: " \o agent_id])

\* the request for the agent "ghost" has been answered 404
C15_Witness ==
    /\ caller = "route" /\ agent_id = "ghost" /\ pc = "responded"
    /\ http /= None /\ The(http).status = 404

\* C16: a chat request in which every provider call succeeded is answered with
\* the success envelope (success true, a conversation id, the final message
\* and the tool results) however many tool calls failed or named unknown
\* tools; the failures are the error entries of the tool results.
C16_ToolFailuresInvisible ==
    (caller = "route" /\ pc = "responded" /\ agent /= None /\ ~ProviderFailed) =>
        /\ http /= None
        /\ The(http).status = 200
        /\ The(http).success = TRUE
        /\ The(http).message = The(ret)[1]
        /\ The(http).conversation_id \in {"conv-1", Uuid4}
        /\ The(http).tool_results =
              IF tool_results = <<>> THEN None
              ELSE Some([k \in 1..Len(tool_results) |-> ToolResultDump(tool_results[k])])
        /\ \A k \in 1..Len(tool_results) :
              The(The(http).tool_results)[k].error = tool_results[k].error

\* a request answered with the success envelope although a tool raised and
\* another tool was unknown
C16_Witness ==
    /\ caller = "route" /\ pc = "responded" /\ ~ProviderFailed
    /\ http /= None /\ The(http).status = 200 /\ The(http).success = TRUE
    /\ \E j, k \in 1..Len(tool_results) :
          /\ tool_results[j].error = Some("Tool not found: web_search")
          /\ tool_results[k].error = Some("Invalid expression: division by zero")

\* the worked example: the provider asks for calculator("2+2"), then answers "4"
ExampleCompletions ==
    <<Return(Some(Message(ASSISTANT, "", None,
                          Some(<<ToolCall(CallId(1, 1), "calculator",
                                          {<<"expression", "2+2">>})>>)))),
      Return(Some(Message(ASSISTANT, "4", None, None)))>>

\* C17: with the agent "assistant" (which allows calculator), a user message
\* and a provider that returns the tool call calculator({"expression": "2+2"})
\* and then the text "4", Agent.chat returns the message "4" with one
\* ToolResult of value 4.0 and no error, after exactly 2 provider calls.
C17_EndToEndCalculator ==
    (agent_id = "assistant" /\ completions = ExampleCompletions) =>
        /\ ret = Some(<<Message(ASSISTANT, "4", None, None),
                        <<ToolResult(CallId(1, 1), Some(PyFloat(4)), None)>>>>)
        /\ exc = None
        /\ provider_calls = 2

\* the worked example has run to its end
C17_Witness ==
    /\ agent_id = "assistant" /\ completions = ExampleCompletions
    /\ messages = <<Message(USER, UserText, None, None)>>
    /\ "calculator" \in AllowedTools(agent_id)
    /\ ret /= None /\ Len(The(ret)[2]) = 1

-----------------------------------------------------------------------------
(* The tool registry *)

\* the registered names of a list, in list order
Registered(names) == SelectSeq(names, LAMBDA n : n \in DOMAIN TOOLS_at_import)

\* C18: get_tool_definitions returns the definitions of exactly the listed
\* names that are registered, in the order of the list; unknown names are
\* skipped without failure, so Agent(config) succeeds for a configuration
\* that lists unknown tools.
C18_DefinitionsOfRegisteredNames ==
    pc = "constructed" =>
        /\ agent /= None
        /\ exc = None
        /\ LET defs == The(agent).tool_definitions
               reg == Registered(The(config).tools) IN
           /\ Len(defs) = Len(reg)
           /\ \A k \in 1..Len(reg) : defs[k] = to_definition(reg[k])

\* an agent constructed from a list with an unknown name between two
\* registered ones
C18_Witness ==
    /\ pc = "constructed" /\ agent /= None
    /\ The(config).tools = <<"json_parse", "web_search", "calculator">>
    /\ Len(The(agent).tool_definitions) = 2

\* the names looked up
LookupNames == DOMAIN TOOLS_at_import \cup ConfigToolNames \cup {""}

\* C19: get_tool is total and idempotent: for every name it returns a tool or
\* None, at every moment the tool it returned at import time, and no step of
\* the loop changes the contents of TOOLS.
C19_LookupTotalIdempotent ==
    /\ [](\A name \in LookupNames :
            get_tool(name) = IF name \in DOMAIN TOOLS_at_import
                             THEN Some(TOOLS_at_import[name]) ELSE None)
    /\ [](TOOLS = TOOLS_at_import)
    /\ [][TOOLS' = TOOLS]_vars

\* Agent.chat ended after looking up a registered tool twice and an unknown one
C19_Witness ==
    /\ ChatDone
    /\ \E j, k \in 1..Len(executed) : j /= k /\ executed[j].name = executed[k].name
    /\ \E k \in 1..Len(tool_results) :
          tool_results[k].error = Some("Tool not found: web_search")

-----------------------------------------------------------------------------
(* The provider adapters *)

RECURSIVE IsSubseq(_, _)
\* a occurs in b, in order
IsSubseq(a, b) ==
    IF a = <<>> THEN TRUE
    ELSE IF b = <<>> THEN FALSE
    ELSE IF Head(a) = Head(b) THEN IsSubseq(Tail(a), Tail(b))
    ELSE IsSubseq(a, Tail(b))

\* the last assistant message of the conversation and the tool messages
\* appended after it
LastBatchMessages ==
    LET last == CHOOSE k \in 1..Len(current_messages) :
                    /\ current_messages[k].role = ASSISTANT
                    /\ \A j \in (k + 1)..Len(current_messages) :
                          current_messages[j].role /= ASSISTANT IN
    SubSeq(current_messages, last, Len(current_messages))

\* C11: for every backend, the request built in iteration i+1 contains, in
\* conversation order, the assistant message of iteration i and the
\* tool-result messages its dispatch batch appended.
C11_NextRequestCarriesToolResults ==
    (pc = "requesting" /\ Len(requests) >= 2) =>
        IsSubseq([k \in 1..Len(LastBatchMessages) |-> WireMessage(LastBatchMessages[k])],
                 requests[Len(requests)].messages)

\* the backend's i-th answer carries a tool-call argument payload that does
\* not decode to a mapping: a string that is not a JSON object (OpenAI), a
\* JSON value that is not an object (Anthropic)
JsonObjects == {"{\"expression\": \"2+2\"}", "{\"flag\": true}"}
MalformedArguments(i) ==
    /\ backend_responses[i].exc = None
    /\ LET raw == The(backend_responses[i].value) IN
       IF The(agent).provider = "AnthropicProvider"
       THEN \E k \in 1..Len(raw.content) :
               raw.content[k].type = "tool_use" /\ raw.content[k].input.t /= "dict"
       ELSE /\ raw.tool_calls /= None
            /\ \E k \in 1..Len(The(raw.tool_calls)) :
                  The(raw.tool_calls)[k].arguments \notin JsonObjects

\* C12: when the backend returns a tool-call argument payload that cannot be
\* decoded into an argument mapping, complete raises a ProviderError: it
\* returns no Message and raises no other kind of failure.
C12_MalformedArgumentsRaiseProviderError ==
    \A i \in 1..Len(completions) :
        MalformedArguments(i) =>
            /\ completions[i].exc /= None
            /\ The(completions[i].exc).type = "ProviderError"

\* C13: every Message a provider adapter's complete returns has role assistant
\* and a tool_calls field that is None or a non-empty list, never an empty
\* list, for the Anthropic and the OpenAI adapter.
C13_AdapterOutputShape ==
    \A i \in 1..Len(completions) :
        completions[i].value /= None =>
            LET msg == The(completions[i].value) IN
            /\ msg.role = ASSISTANT
            /\ msg.tool_calls = None \/ The(msg.tool_calls) /= <<>>

\* an adapter returned a Message with tool calls and then, for a backend
\* answer without any tool call, a Message whose tool_calls is None
C13_Witness ==
    /\ Len(completions) = 2
    /\ completions[1].value /= None /\ HasToolCalls(The(completions[1].value))
    /\ completions[2].value /= None /\ The(completions[2].value).tool_calls = None
    /\ NumCalls(The(agent).provider, The(backend_responses[2].value)) = 0
    /\ The(completions[2].value).content = ""

\* C14: the adapter does not retry and the loop calls complete once per
\* iteration: every call of complete sends exactly one request and gets one
\* answer or failure, and nothing is sent after a failure.
C14_OneRequestPerComplete ==
    /\ [](/\ Len(requests) = provider_calls
           /\ provider_calls = iterations
           /\ Len(backend_responses) = Len(completions)
           /\ Len(completions) = IF pc = "requesting" THEN provider_calls - 1
                                 ELSE provider_calls)
    /\ [][(backend_responses /= <<>>
            /\ backend_responses[Len(backend_responses)].exc /= None) =>
              UNCHANGED <<requests, backend_responses>>]_vars

\* the second request failed in the backend after a first one that succeeded
C14_Witness ==
    /\ Len(requests) = 2 /\ Len(backend_responses) = 2
    /\ backend_responses[1].exc = None
    /\ backend_responses[2].exc /= None
    /\ exc = backend_responses[2].exc

-----------------------------------------------------------------------------
(* The Message model *)

\* the arguments break an invariant of the message model: a tool message
\* without tool-call identifier, or an assistant message whose tool-call list
\* is empty or names an identifier twice
ViolatesMessageInvariants(args) ==
    \/ args.role = TOOL /\ args.tool_call_id = None
    \/ /\ args.role = ASSISTANT
       /\ args.tool_calls /= None
       /\ LET tcs == The(args.tool_calls) IN
          \/ tcs = <<>>
          \/ \E j, k \in 1..Len(tcs) : j /= k /\ tcs[j].id = tcs[k].id

\* C20: constructing a Message that violates the model's invariants (a tool
\* message without tool-call identifier, an assistant message whose tool-call
\* list is empty or has two entries with the same identifier) fails with a
\* ValidationError.
C20_InvalidMessageRejected ==
    (msg_out /= None /\ ViolatesMessageInvariants(The(msg_args))) =>
        /\ The(msg_out).exc /= None
        /\ The(The(msg_out).exc).type = "ValidationError"

-----------------------------------------------------------------------------
(* The accumulated ToolResults and the conversation *)

\* C21: no ToolResult the loop produces has both a value and an error: one
\* with an error has result None, and the result of a successful execution
\* has no error and carries what the tool returned (possibly nothing).
C21_ValueOrErrorNeverBoth ==
    \A k \in 1..Len(tool_results) :
        LET r == tool_results[k]
            call == DispatchedCall(k)
            tool == get_tool(call.name) IN
        /\ ~(r.result /= None /\ r.error /= None)
        /\ r.error /= None => r.result = None
        /\ \A now \in Clock :
              (tool /= None /\ ToolExecute(The(tool), call.arguments, now).exc = None) =>
                  /\ r.error = None
                  /\ r.result = ToolExecute(The(tool), call.arguments, now).value

\* three results: one with a value, one with an error, one with neither
C21_Witness ==
    /\ Len(tool_results) = 3
    /\ \E k \in 1..3 : tool_results[k].result /= None /\ tool_results[k].error = None
    /\ \E k \in 1..3 : tool_results[k].result = None /\ tool_results[k].error /= None
    /\ \E k \in 1..3 : tool_results[k].result = None /\ tool_results[k].error = None

\* the tool-role messages of the conversation, in order
ToolMessages == SelectSeq(current_messages, LAMBDA m : m.role = TOOL)

\* the content the tool message of a ToolResult is to carry: the error
\* description of a failed call, the rendering of the value of a successful
\* one, "" when there is no value
RenderedContent(r) ==
    IF r.error /= None THEN The(r.error)
    ELSE IF r.result /= None THEN PyStrOf(The(r.result))
    ELSE ""

\* C22: the tool-role message appended for a tool call carries the rendering
\* of the value for every successful result that has a value (falsy values
\* such as 0.0, False, [] and {} included), the error description for every
\* failed call, and "" only when a successful result has no value.
C22_ToolMessageRendersResult ==
    \A k \in 1..Len(tool_results) :
        /\ k <= Len(ToolMessages)
        /\ ToolMessages[k].content = RenderedContent(tool_results[k])

-----------------------------------------------------------------------------
(* Concurrent invocations *)

RECURSIVE DispatchAlone(_, _, _)
\* conv and results after the calls are dispatched one after the other
DispatchAlone(conv, results, calls) ==
    IF calls = <<>> THEN [conv |-> conv, results |-> results]
    ELSE LET now == CHOOSE t \in Clock : TRUE
             r == The(_execute_tool(Head(calls), now).out.value) IN
         DispatchAlone(Append(conv, ToolMessage(r, Head(calls))),
                       Append(results, r), Tail(calls))

RECURSIVE RunAlone(_, _, _)
\* conversation and results of an invocation that runs alone and receives
\* the provider outcomes of script, from the state <<conv, results>>
RunAlone(conv, results, script) ==
    IF script = <<>> THEN [conv |-> conv, results |-> results]
    ELSE IF Head(script).exc /= None \/ ~HasToolCalls(The(Head(script).value))
    THEN [conv |-> conv, results |-> results]
    ELSE LET resp == The(Head(script).value)
             d == DispatchAlone(Append(conv, resp), results, The(resp.tool_calls)) IN
         RunAlone(d.conv, d.results, Tail(script))

\* the invocation with frame f, which is invocation self, has the
\* conversation and the results it would have had alone
AsIfAlone(f, self) ==
    LET mine == <<Message(USER, OwnUserText(self), None, None)>>
        alone == RunAlone(mine, <<>>, f.completions) IN
    /\ f.messages = mine
    /\ \A i \in 1..Len(f.completions) :
          f.completions[i].value /= None =>
              The(f.completions[i].value) \in OwnResponses(self, i)
    /\ f.pc /= "dispatching" =>
          /\ f.current_messages = alone.conv
          /\ f.tool_results = alone.results
    /\ f.ret /= None => The(f.ret)[2] = alone.results

\* C23: under every interleaving of two Agent.chat invocations, each
\* invocation's conversation and returned ToolResult list hold only what
\* arises from its own provider responses, and are what they would be had the
\* invocation run alone.
C23_InvocationsDoNotInterfere ==
    parked /= None =>
        /\ AsIfAlone(Frame, Running)
        /\ AsIfAlone(The(parked).frame, The(parked).self)

\* one invocation has returned its results while the other, which already
\* has a result of its own, is suspended at its second provider call
C23_Witness ==
    /\ parked /= None
    /\ ret /= None /\ The(ret)[2] /= <<>>
    /\ The(parked).frame.pc = "requesting"
    /\ The(parked).frame.tool_results /= <<>>
    /\ The(parked).frame.tool_results /= The(ret)[2]

-----------------------------------------------------------------------------
(* Order of the operations of one invocation *)

\* C24: within one invocation at most one operation is outstanding: a tool
\* runs only after the provider call that produced its batch has completed,
\* tool call j+1 of a batch runs only after call j has finished and its
\* result is appended, and the next provider call starts only after the
\* whole batch is dispatched.
C24_OneOperationAtATime ==
    /\ [](/\ (pc = "requesting" => Len(completions) = provider_calls - 1)
           /\ (pc = "dispatching" => Len(completions) = provider_calls))
    /\ [][(tool_results' /= tool_results \/ executed' /= executed) =>
            /\ pc = "dispatching"
            /\ Len(completions) = provider_calls
            /\ response = Some(ResponseOf(Len(completions)))
            /\ Len(LastBatchMessages) = idx
            /\ Len(executed') <= Len(executed) + 1
            /\ Len(tool_results') = Len(tool_results) + 1
            /\ SubSeq(tool_results', 1, Len(tool_results)) = tool_results
            /\ tool_results'[Len(tool_results')].tool_call_id = BatchCalls[idx].id]_vars
    /\ [][provider_calls' /= provider_calls =>
            /\ pc = "loop"
            /\ Len(completions) = provider_calls
            /\ (response /= None =>
                  /\ HasToolCalls(The(response))
                  /\ Len(LastBatchMessages) = Len(BatchCalls) + 1)]_vars

\* the second provider call is outstanding after a batch of two tool calls
C24_Witness ==
    /\ pc = "requesting" /\ provider_calls = 2
    /\ Len(BatchCalls) = 2 /\ Len(tool_results) = 2
    /\ Len(LastBatchMessages) = 3

\* the tool calls of the provider responses that carried tool calls, in
\* iteration order, then call order
RequestedCalls ==
    LET carrying == SelectSeq(completions,
                              LAMBDA o : o.exc = None /\ HasToolCalls(The(o.value))) IN
    AllCalls([k \in 1..Len(carrying) |-> The(carrying[k].value)])

\* C25: the accumulated ToolResult list corresponds one-to-one, in order, to
\* the tool calls dispatched so far over all iterations: result k carries the
\* identifier of the k-th dispatched call, and at return the list is as long
\* as the tool calls of all responses that carried tool calls.
C25_ResultsMatchDispatchedCalls ==
    /\ Len(tool_results) <= Len(RequestedCalls)
    /\ \A k \in 1..Len(tool_results) :
          tool_results[k].tool_call_id = RequestedCalls[k].id
    /\ pc = "dispatching" =>
          Len(tool_results) = Len(RequestedCalls) - Len(BatchCalls) + idx - 1
    /\ pc /= "dispatching" => Len(tool_results) = Len(RequestedCalls)
    /\ ret /= None =>
          /\ The(ret)[2] = tool_results
          /\ Len(The(ret)[2]) = Len(RequestedCalls)

\* three results returned for a batch of two calls and a later single call
C25_Witness ==
    /\ ret /= None /\ Len(The(ret)[2]) = 3
    /\ Len(completions) = 3
    /\ Len(The(ResponseOf(1).tool_calls)) = 2
    /\ The(ret)[2][3].tool_call_id = CallId(2, 1)
    /\ The(ret)[2][3].error /= None

-----------------------------------------------------------------------------
(* Termination *)

\* Agent.chat returned the provider's response that carries no tool calls
TerminatedSuccess ==
    /\ ret /= None /\ exc = None
    /\ completions /= <<>> /\ IsResponse(Len(completions))
    /\ ~HasToolCalls(ResponseOf(Len(completions)))
    /\ The(ret)[1] = ResponseOf(Len(completions))

\* Agent.chat returned the advisory message after using up its iterations
TerminatedLimitReached ==
    /\ ret /= None /\ exc = None
    /\ The(ret)[1] = LimitMessage
    /\ iterations >= max_iterations
    /\ AllToolCallResponses

\* Agent.chat raised the failure of its last provider call
SurfacedProviderFailure ==
    /\ ret = None /\ exc /= None
    /\ ProviderFailed
    /\ exc = completions[Len(completions)].exc

\* C26: every invocation of Agent.chat terminates, provided each provider
\* call and each tool execution returns or fails; it ends in exactly one of
\* success, limit reached or a surfaced provider failure, and never performs
\* more dispatch batches than the cap.
C26_ChatTerminates ==
    /\ (pc = "loop" /\ iterations = 0) ~> ChatDone
    /\ [](ChatDone =>
            /\ TerminatedSuccess \/ TerminatedLimitReached \/ SurfacedProviderFailure
            /\ ~(TerminatedSuccess /\ TerminatedLimitReached)
            /\ ~(TerminatedSuccess /\ SurfacedProviderFailure)
            /\ ~(TerminatedLimitReached /\ SurfacedProviderFailure))
    /\ [](batches <= max_iterations)
    /\ [][ChatDone => UNCHANGED <<ret, exc, provider_calls, batches, tool_results>>]_vars

\* an invocation that ended with the limit reached after two batches
C26_Witness ==
    /\ TerminatedLimitReached /\ batches = 2 /\ max_iterations = 2
    /\ tool_results /= <<>>

-----------------------------------------------------------------------------
(* What Agent.chat returns and what it leaves alone *)

\* C27: the message Agent.chat returns always has role assistant and carries
\* no tool calls, on success and when the limit is reached; a response that
\* carries tool calls is appended to the conversation and never returned.
C27_FinalMessageHasNoToolCalls ==
    /\ ret /= None =>
          /\ The(ret)[1].role = ASSISTANT
          /\ The(ret)[1].tool_calls \in {None, Some(<<>>)}
    /\ \A i \in 1..Len(completions) :
          (IsResponse(i) /\ ResponseOf(i).tool_calls \notin {None, Some(<<>>)}) =>
              /\ \E k \in 1..Len(current_messages) : current_messages[k] = ResponseOf(i)
              /\ ret /= None => The(ret)[1] /= ResponseOf(i)

\* the limit was reached right after a response that carried tool calls
C27_Witness ==
    /\ ret /= None /\ The(ret)[1] = LimitMessage
    /\ max_iterations = 1
    /\ response /= None /\ The(response).tool_calls \notin {None, Some(<<>>)}
    /\ current_messages[2] = The(response)

\* C28: Agent.chat never mutates the caller's conversation: it works on a
\* copy that only grows, by appending assistant messages with tool calls and
\* tool messages, and the caller's list is unchanged on every exit path.
C28_CallerConversationUntouched ==
    /\ [](pc /= "route" /\ agent /= None =>
            messages = <<Message(USER, UserText, None, None)>>)
    /\ [][pc /= "route" => messages' = messages]_vars
    /\ [][/\ Len(current_messages') >= Len(current_messages)
           /\ SubSeq(current_messages', 1, Len(current_messages)) = current_messages
           /\ pc /= "route" =>
                 \A k \in (Len(current_messages) + 1)..Len(current_messages') :
                     \/ current_messages'[k].role = TOOL
                     \/ /\ current_messages'[k].role = ASSISTANT
                        /\ HasToolCalls(current_messages'[k])]_vars

\* Agent.chat raised a provider failure after its copy had grown by a batch
C28_Witness ==
    /\ exc /= None /\ ProviderFailed
    /\ Len(current_messages) >= 3
    /\ messages = <<Message(USER, UserText, None, None)>>
    /\ messages /= current_messages

\* C29: with a cap of 0 or less, Agent.chat makes no provider call and no
\* tool dispatch, and returns the advisory message with an empty list of
\* tool results; it never is in the requesting state.
C29_NonPositiveCapReturnsAdvisory ==
    max_iterations <= 0 =>
        /\ pc \in {"loop", "returned"}
        /\ provider_calls = 0
        /\ requests = <<>>
        /\ backend_responses = <<>>
        /\ executed = <<>>
        /\ tool_results = <<>>
        /\ iterations = 0
        /\ exc = None
        /\ pc = "returned" => ret = Some(<<LimitMessage, <<>>>>)

\* Agent.chat has returned under a cap of 0
C29_Witness ==
    /\ max_iterations = 0
    /\ pc = "returned"
    /\ ret = Some(<<LimitMessage, <<>>>>)
    /\ provider_calls = 0
    /\ requests = <<>>

====
